---- MODULE Spec2Model ----
(***************************************************************************)
(* Model of hw1.py: a fleet run that, device after device, opens a CLI     *)
(* session, backs up the running configuration, inspects CDP and version,  *)
(* sets the timezone, checks NTP, disconnects and collects a report line.  *)
(* Every remote call and every file operation either succeeds or raises;   *)
(* what the device answers is chosen from the small sets below.            *)
(***************************************************************************)
EXTENDS Integers, Sequences, FiniteSets, TLC

VARIABLES
    inventory,         \* rows of devices.csv
    mainPc,            \* position of main()
    timestamp,         \* main(): timestamp
    device_list,       \* main(): device_list
    result,            \* main(): result
    printed,           \* lines written by print(*result, sep="\n")
    n,                 \* index in device_list of the device being processed
    pc,                \* position of process_target()
    connection,        \* state of the session opened for each device
    enabled,           \* whether that session is in enable mode
    backup_file_path,  \* process_target(): backup_file_path
    output,            \* the local `output` of the function that ran last
    cdp_result,        \* process_target(): _cdp_result
    ver_result,        \* process_target(): _hostname, _device_type, _image, _is_NPE
    ntp_result,        \* process_target(): _ntp_result
    dirs,              \* directories that exist under the backup root
    files,             \* backup files: path -> content
    exc,               \* the exception that ended the run, if any
    trace,             \* history: per device, the steps started, in order
    origin,            \* history: per entry of result, the device it came from
    backup_ret,        \* history: what create_backup returned to process_target
    ping_ret           \* history: what ping_ntp returned, until the next call

vars == <<inventory, mainPc, timestamp, device_list, result, printed, n, pc,
          connection, enabled, backup_file_path, output, cdp_result,
          ver_result, ntp_result, dirs, files, exc, trace, origin,
          backup_ret, ping_ret>>

-----------------------------------------------------------------------------
(* Bounds of the model *)

MaxDevices == 2
MaxPeers == 1

-----------------------------------------------------------------------------
(* Module constants of hw1.py *)

BACKUP_DIR_PATH == "backups"
NTP_SERVER == "10.10.0.1"

-----------------------------------------------------------------------------
(* Strings *)

LowerCase == "abcdefghijklmnopqrstuvwxyz"
UpperCase == "ABCDEFGHIJKLMNOPQRSTUVWXYZ"

CharAt(s, i) == SubSeq(s, i, i)

UpperChar(c) ==
    IF \E i \in 1..Len(LowerCase) : CharAt(LowerCase, i) = c
    THEN CharAt(UpperCase, CHOOSE i \in 1..Len(LowerCase) : CharAt(LowerCase, i) = c)
    ELSE c

RECURSIVE Upper(_)
Upper(s) == IF s = "" THEN "" ELSE UpperChar(CharAt(s, 1)) \o Upper(SubSeq(s, 2, Len(s)))

\* Python's `sub in s` on strings
Contains(s, sub) ==
    \E i \in 1..(Len(s) - Len(sub) + 1) : SubSeq(s, i, i + Len(sub) - 1) = sub

\* os.path.join of relative components
PathJoin(a, b) == a \o "/" \o b

-----------------------------------------------------------------------------
(* What send_command(..., use_textfsm=True) returns: a list of dicts when a  *)
(* template matched, the raw text otherwise.                                *)

Structured(l) == [records |-> l]
Raw(t) == [text |-> t]
IsList(o) == "records" \in DOMAIN o
Truthy(o) == IF IsList(o) THEN Len(o.records) > 0 ELSE o.text # ""
Get(d, k, default) == IF k \in DOMAIN d THEN d[k] ELSE default

-----------------------------------------------------------------------------
(* What the environment can answer *)

Hostnames == {"r1", "r2"}
\* what datetime.now().strftime("%Y_%m_%d-%H_%M_%S") gives when main() starts
Timestamps == {"2021_03_01-10_00_00"}

IpOf(k) == "10.0.0." \o ToString(k)

\* the running configuration a device answers 'sh run' with: its own
RunningConfig(ip) == "! running configuration of " \o ip

\* a row of devices.csv; username, password, device_type and secret are
\* passed to ConnectHandler unread and are left out. Hostnames may repeat;
\* the first row is "r1" (the two names are interchangeable)
Inventories ==
    UNION { { [k \in 1..len |-> [ip |-> IpOf(k), hostname |-> h[k]]] :
                h \in { g \in [1..len -> Hostnames] : len > 0 => g[1] = "r1" } } :
            len \in 0..MaxDevices }

Neighbor == [destination_host |-> "sw1"]

CdpOutputs ==
    { Structured([k \in 1..len |-> Neighbor]) : len \in 0..MaxPeers }
    \cup { Raw(""), Raw("% CDP is not enabled") }

VersionDict(img) ==
    [hostname |-> "r1", hardware |-> <<"WS-C2960">>, version |-> "15.2(4)e",
     running_image |-> img]

VersionOutputs ==
    { Structured(<<VersionDict(img)>>) :
        img \in {"c2960-lanbasek9-mz.bin", "c2960-lanbasek9npe-mz.bin", "C2960-Npe.bin"} }
    \cup { Structured(<<[hostname |-> "r1", hardware |-> <<"WS-C2960">>,
                          version |-> "15.2(4)e"]>>),
           Structured(<<[hostname |-> "r1", hardware |-> <<>>, version |-> "15.2(4)e"]>>),
           Structured(<<>>),
           Raw(""),
           Raw("% Invalid input detected") }

PingOutputs == {"!!!!!", ".....", "..!!!"}

NtpOutputs == {"*~10.10.0.1 .LOCL.", " ~10.10.0.1 .INIT.", ""}

-----------------------------------------------------------------------------
(* The pure part of each function of hw1.py *)

\* get_backup_file_path: the directory it creates and the path it returns
BackupDir(hostname) == PathJoin(BACKUP_DIR_PATH, hostname)

\* get_backup_file_path naming the file in the backup root, not in the
\* directory of the host
BackupFilePathInRoot(hostname, ts) ==
    PathJoin(BACKUP_DIR_PATH, hostname \o "-" \o ts \o ".txt")

BackupFilePath(hostname, ts) ==
    PathJoin(BackupDir(hostname), hostname \o "-" \o ts \o ".txt")

\* check_cdp_neighbours_count with `if output:` for `if type(output) == list:`
check_cdp_truthiness(o) ==
    IF Truthy(o) /\ IsList(o)
    THEN "CDP is ON, " \o ToString(Len(o.records)) \o " peers"
    ELSE "CDP is OFF, 0 peers"

\* check_cdp_neighbours_count, given what send_command returned
check_cdp_neighbours_count(o) ==
    IF IsList(o)
    THEN "CDP is ON, " \o ToString(Len(o.records)) \o " peers"
    ELSE "CDP is OFF, 0 peers"

\* check_version raises when output is truthy and output[0] has no .get
\* (a character of raw text) or its hardware list is empty
check_version_raises(o) ==
    /\ Truthy(o)
    /\ \/ ~IsList(o)
       \/ Get(o.records[1], "hardware", <<"">>) = <<>>

check_version_error(o) == IF ~IsList(o) THEN "AttributeError" ELSE "IndexError"

\* check_version looking for "NPE" in running_image as it is, without .upper()
check_version_case_sensitive(o) ==
    IF ~Truthy(o)
    THEN <<"", "", "", "">>
    ELSE <<Get(o.records[1], "hostname", ""),
           Get(o.records[1], "hardware", <<"">>)[1],
           Upper(Get(o.records[1], "version", "")),
           IF Contains(Get(o.records[1], "running_image", ""), "NPE")
           THEN "NPE" ELSE "PE">>

\* check_version, given what send_command returned (when it does not raise)
check_version(o) ==
    IF ~Truthy(o)
    THEN <<"", "", "", "">>
    ELSE <<Get(o.records[1], "hostname", ""),
           Get(o.records[1], "hardware", <<"">>)[1],
           Upper(Get(o.records[1], "version", "")),
           IF Contains(Upper(Get(o.records[1], "running_image", "")), "NPE")
           THEN "NPE" ELSE "PE">>

\* ping_ntp, given the ping output
ping_ntp(o) == ~Contains(o, ".....")

\* check_ntp looking for the server address alone, without the "*~" marker
check_ntp_any_association(o, ntp_server) ==
    IF Contains(o, ntp_server) THEN "Clock in Sync" ELSE "Not Sync"

\* check_ntp, given the output of 'sh ntp asso'
check_ntp(o, ntp_server) ==
    IF Contains(o, "*~" \o ntp_server) THEN "Clock in Sync" ELSE "Not Sync"

\* the line process_target returns
ResultLine(ver, cdp, ntp) ==
    ver[1] \o "|" \o ver[2] \o "|" \o ver[3] \o "|" \o ver[4] \o "|" \o cdp \o "|" \o ntp

-----------------------------------------------------------------------------
(* State after the module is loaded, before main() runs *)

NoLocals ==
    /\ backup_file_path = ""
    /\ output = ""
    /\ cdp_result = ""
    /\ ver_result = <<"", "", "", "">>
    /\ ntp_result = ""
    /\ backup_ret = "unset"
    /\ ping_ret = "unset"

Init ==
    /\ inventory \in Inventories
    /\ mainPc = "timestamp"
    /\ timestamp = ""
    /\ device_list = <<>>
    /\ result = <<>>
    /\ printed = <<>>
    /\ n = 0
    /\ pc = "idle"
    /\ connection = [k \in 1..Len(inventory) |-> "none"]
    /\ enabled = [k \in 1..Len(inventory) |-> FALSE]
    /\ NoLocals
    /\ dirs = {}
    /\ files = << >>
    /\ exc = "none"
    /\ trace = [k \in 1..Len(inventory) |-> << >>]
    /\ origin = << >>

-----------------------------------------------------------------------------
(* Helpers of the actions *)

device == device_list[n]

locals == <<backup_file_path, output, cdp_result, ver_result, ntp_result,
            backup_ret, ping_ret>>

mainVars == <<inventory, timestamp, device_list, result, printed, n, origin>>

\* the step `s` of process_target starts for the current device
Started(s) == trace' = [trace EXCEPT ![n] = Append(@, s)]

\* the step went through; process_target goes on with `next`
Goto(next) == pc' = next /\ mainPc' = mainPc /\ exc' = exc

\* the frame of process_target is gone: its locals with it
ClearLocals ==
    /\ backup_file_path' = ""
    /\ output' = ""
    /\ cdp_result' = ""
    /\ ver_result' = <<"", "", "", "">>
    /\ ntp_result' = ""
    /\ backup_ret' = "unset"
    /\ ping_ret' = "unset"

\* an exception leaves the step; nothing in process_target or main catches
\* it, so it ends process_target and main
Raise(e) == pc' = "raised" /\ mainPc' = "crashed" /\ exc' = e /\ ClearLocals

\* create_backup's handler is `except Error`, and Error is not defined:
\* matching any exception against it raises NameError
RaiseInCreateBackup(e) == Raise("NameError")

\* result.insert(0, line) for result.append(line)
CollectFront(seq, line) == <<line>> \o seq

\* result.append(line)
Collect(seq, line) == Append(seq, line)

\* open(path, 'w').write(content)
WriteFile(path, content) ==
    files' = [p \in (DOMAIN files) \cup {path} |-> IF p = path THEN content ELSE files[p]]

-----------------------------------------------------------------------------
(* main() *)

\* timestamp = get_current_date_and_time()
GetCurrentDateAndTime ==
    /\ mainPc = "timestamp"
    /\ timestamp' \in Timestamps
    /\ mainPc' = "devices"
    /\ UNCHANGED <<inventory, device_list, result, printed, n, pc, connection,
                   enabled, locals, dirs, files, exc, trace, origin>>

\* device_list = get_devices_from_file(DEVICE_FILE_PATH)
GetDevicesFromFile ==
    /\ mainPc = "devices"
    /\ \/ /\ device_list' = inventory
          /\ mainPc' = "loop"
          /\ exc' = exc
       \/ /\ device_list' = device_list
          /\ mainPc' = "crashed"
          /\ exc' = "FileNotFoundError"
    /\ UNCHANGED <<inventory, timestamp, result, printed, n, pc, connection,
                   enabled, locals, dirs, files, trace, origin>>

\* for device in device_list: ... process_target(device, timestamp)
CallProcessTarget ==
    /\ mainPc = "loop"
    /\ n < Len(device_list)
    /\ n' = n + 1
    /\ mainPc' = "process_target"
    /\ pc' = "connect"
    /\ UNCHANGED <<inventory, timestamp, device_list, result, printed,
                   connection, enabled, locals, dirs, files, exc, trace, origin>>

\* print(*result, sep="\n")
PrintReport ==
    /\ mainPc = "loop"
    /\ n = Len(device_list)
    /\ printed' = result
    /\ mainPc' = "done"
    /\ UNCHANGED <<inventory, timestamp, device_list, result, n, pc, connection,
                   enabled, locals, dirs, files, exc, trace, origin>>

-----------------------------------------------------------------------------
(* process_target(device, timestamp), one action per call it makes *)

\* connection = connect_to_device(device)
ConnectToDevice ==
    /\ pc = "connect"
    /\ Started("connect")
    /\ \/ /\ connection' = [connection EXCEPT ![n] = "open"]
          /\ Goto("get_path")
          /\ UNCHANGED locals
       \/ /\ connection' = connection
          /\ Raise("NetmikoTimeoutException")
    /\ UNCHANGED <<mainVars, enabled, dirs, files>>

\* backup_file_path = get_backup_file_path(device['hostname'], timestamp)
GetBackupFilePath ==
    /\ pc = "get_path"
    /\ Started("get_path")
    /\ \/ /\ dirs' = dirs \cup {BackupDir(device.hostname)}
          /\ backup_file_path' = BackupFilePath(device.hostname, timestamp)
          /\ Goto("enable")
          /\ UNCHANGED <<output, cdp_result, ver_result, ntp_result, backup_ret, ping_ret>>
       \/ \* os.makedirs fails
          /\ BackupDir(device.hostname) \notin dirs
          /\ dirs' = dirs
          /\ Raise("OSError")
    /\ UNCHANGED <<mainVars, connection, enabled, files>>

\* create_backup without connection.enable()
CreateBackupWithoutEnable ==
    /\ pc = "enable"
    /\ Started("enable")
    /\ enabled' = enabled
    /\ Goto("sh_run")
    /\ UNCHANGED <<mainVars, connection, locals, dirs, files>>

\* create_backup: connection.enable()
CreateBackupEnable ==
    /\ pc = "enable"
    /\ Started("enable")
    /\ \/ /\ enabled' = [enabled EXCEPT ![n] = TRUE]
          /\ Goto("sh_run")
          /\ UNCHANGED locals
       \/ /\ enabled' = enabled
          /\ RaiseInCreateBackup("ValueError")
    /\ UNCHANGED <<mainVars, connection, dirs, files>>

\* create_backup: output = connection.send_command('sh run')
CreateBackupShowRun ==
    /\ pc = "sh_run"
    /\ Started("sh_run")
    /\ \/ /\ output' = RunningConfig(device.ip)
          /\ Goto("write")
          /\ UNCHANGED <<backup_file_path, cdp_result, ver_result, ntp_result,
                         backup_ret, ping_ret>>
       \/ RaiseInCreateBackup("ReadTimeout")
    /\ UNCHANGED <<mainVars, connection, enabled, dirs, files>>

\* create_backup: with open(backup_file_path, 'w') as file: file.write(output);
\* return True
CreateBackupWrite ==
    /\ pc = "write"
    /\ Started("write")
    /\ \/ /\ WriteFile(backup_file_path, output)
          /\ backup_ret' = "True"
          /\ Goto("cdp")
          /\ UNCHANGED <<backup_file_path, output, cdp_result, ver_result,
                         ntp_result, ping_ret>>
       \/ \* open() fails: the file is not touched
          /\ files' = files
          /\ RaiseInCreateBackup("OSError")
       \/ \* write() fails: open() has already truncated the file
          /\ WriteFile(backup_file_path, "")
          /\ RaiseInCreateBackup("OSError")
    /\ UNCHANGED <<mainVars, connection, enabled, dirs>>

\* _cdp_result = check_cdp_neighbours_count(connection)
CheckCdpNeighboursCount ==
    /\ pc = "cdp"
    /\ Started("cdp")
    /\ \/ /\ \E o \in CdpOutputs :
                /\ output' = o
                /\ cdp_result' = check_cdp_neighbours_count(o)
          /\ Goto("version")
          /\ UNCHANGED <<backup_file_path, ver_result, ntp_result, backup_ret, ping_ret>>
       \/ Raise("ReadTimeout")
    /\ UNCHANGED <<mainVars, connection, enabled, dirs, files>>

\* _hostname, _device_type, _image, _is_NPE = check_version(connection)
CheckVersion ==
    /\ pc = "version"
    /\ Started("version")
    /\ \/ \E o \in VersionOutputs :
            IF check_version_raises(o)
            THEN Raise(check_version_error(o))
            ELSE /\ output' = o
                 /\ ver_result' = check_version(o)
                 /\ Goto("timezone")
                 /\ UNCHANGED <<backup_file_path, cdp_result, ntp_result,
                                backup_ret, ping_ret>>
       \/ Raise("ReadTimeout")
    /\ UNCHANGED <<mainVars, connection, enabled, dirs, files>>

\* set_timezone(connection)
SetTimezone ==
    /\ pc = "timezone"
    /\ Started("timezone")
    /\ \/ /\ output' = ""
          /\ Goto("ping")
          /\ UNCHANGED <<backup_file_path, cdp_result, ver_result, ntp_result,
                         backup_ret, ping_ret>>
       \/ Raise("ReadTimeout")
    /\ UNCHANGED <<mainVars, connection, enabled, dirs, files>>

\* process_target skipping check_ntp when ping_ntp returned False
PingNtpGating ==
    /\ pc = "ping"
    /\ Started("ping")
    /\ \/ /\ \E o \in PingOutputs :
                /\ output' = o
                /\ ping_ret' = IF ping_ntp(o) THEN "True" ELSE "False"
                /\ IF ping_ntp(o) THEN Goto("ntp_server") ELSE Goto("disconnect")
          /\ UNCHANGED <<backup_file_path, cdp_result, ver_result, ntp_result,
                         backup_ret>>
       \/ Raise("ReadTimeout")
    /\ UNCHANGED <<mainVars, connection, enabled, dirs, files>>

\* ping_ntp(connection, NTP_SERVER); the value returned is dropped
PingNtp ==
    /\ pc = "ping"
    /\ Started("ping")
    /\ \/ /\ \E o \in PingOutputs :
                /\ output' = o
                /\ ping_ret' = IF ping_ntp(o) THEN "True" ELSE "False"
          /\ Goto("ntp_server")
          /\ UNCHANGED <<backup_file_path, cdp_result, ver_result, ntp_result,
                         backup_ret>>
       \/ Raise("ReadTimeout")
    /\ UNCHANGED <<mainVars, connection, enabled, dirs, files>>

\* check_ntp querying the associations right after the configuration push,
\* the sleep coming last
CheckNtpConfigThenQuery ==
    /\ pc = "ntp_server"
    /\ Started("ntp_server")
    /\ \/ /\ output' = ""
          /\ ping_ret' = "unset"
          /\ Goto("ntp_asso")
          /\ UNCHANGED <<backup_file_path, cdp_result, ver_result, ntp_result,
                         backup_ret>>
       \/ Raise("ReadTimeout")
    /\ UNCHANGED <<mainVars, connection, enabled, dirs, files>>

\* check_ntp: connection.send_config_set([f"ntp server {ntp_server}"])
CheckNtpConfig ==
    /\ pc = "ntp_server"
    /\ Started("ntp_server")
    /\ \/ /\ output' = ""
          /\ ping_ret' = "unset"
          /\ Goto("sleep")
          /\ UNCHANGED <<backup_file_path, cdp_result, ver_result, ntp_result,
                         backup_ret>>
       \/ Raise("ReadTimeout")
    /\ UNCHANGED <<mainVars, connection, enabled, dirs, files>>

\* check_ntp: time.sleep(4)
CheckNtpSleep ==
    /\ pc = "sleep"
    /\ Started("sleep")
    /\ Goto("ntp_asso")
    /\ UNCHANGED <<mainVars, connection, enabled, locals, dirs, files>>

\* check_ntp: output = connection.send_command("sh ntp asso"); return ...
CheckNtpAssociations ==
    /\ pc = "ntp_asso"
    /\ Started("ntp_asso")
    /\ \/ /\ \E o \in NtpOutputs :
                /\ output' = o
                /\ ntp_result' = check_ntp(o, NTP_SERVER)
          /\ Goto("disconnect")
          /\ UNCHANGED <<backup_file_path, cdp_result, ver_result, backup_ret, ping_ret>>
       \/ Raise("ReadTimeout")
    /\ UNCHANGED <<mainVars, connection, enabled, dirs, files>>

\* disconnect_from_device without connection.disconnect()
DisconnectWithoutClosing ==
    /\ pc = "disconnect"
    /\ Started("disconnect")
    /\ connection' = connection
    /\ output' = ""
    /\ Goto("return")
    /\ UNCHANGED <<mainVars, enabled, backup_file_path, cdp_result, ver_result,
                   ntp_result, backup_ret, ping_ret, dirs, files>>

\* disconnect_from_device(connection, device['hostname'])
DisconnectFromDevice ==
    /\ pc = "disconnect"
    /\ Started("disconnect")
    /\ connection' = [connection EXCEPT ![n] = "closed"]
    /\ output' = ""
    /\ Goto("return")
    /\ UNCHANGED <<mainVars, enabled, backup_file_path, cdp_result, ver_result,
                   ntp_result, backup_ret, ping_ret, dirs, files>>

\* main printing each line as soon as process_target has returned it
ReturnResultAndPrint ==
    /\ pc = "return"
    /\ result' = Collect(result, ResultLine(ver_result, cdp_result, ntp_result))
    /\ printed' = Append(printed, ResultLine(ver_result, cdp_result, ntp_result))
    /\ origin' = Collect(origin, device.ip)
    /\ pc' = "idle"
    /\ mainPc' = "loop"
    /\ ClearLocals
    /\ UNCHANGED <<inventory, timestamp, device_list, n, connection,
                   enabled, dirs, files, exc, trace>>

\* return f"{_hostname}|...|{_ntp_result}", and result.append(...) in main
ReturnResult ==
    /\ pc = "return"
    /\ result' = Collect(result, ResultLine(ver_result, cdp_result, ntp_result))
    /\ origin' = Collect(origin, device.ip)
    /\ pc' = "idle"
    /\ mainPc' = "loop"
    /\ ClearLocals
    /\ UNCHANGED <<inventory, timestamp, device_list, printed, n, connection,
                   enabled, dirs, files, exc, trace>>

-----------------------------------------------------------------------------

Next ==
    \/ GetCurrentDateAndTime
    \/ GetDevicesFromFile
    \/ CallProcessTarget
    \/ PrintReport
    \/ ConnectToDevice
    \/ GetBackupFilePath
    \/ CreateBackupEnable
    \/ CreateBackupShowRun
    \/ CreateBackupWrite
    \/ CheckCdpNeighboursCount
    \/ CheckVersion
    \/ SetTimezone
    \/ PingNtp
    \/ CheckNtpConfig
    \/ CheckNtpSleep
    \/ CheckNtpAssociations
    \/ DisconnectFromDevice
    \/ ReturnResult

Spec == Init /\ [][Next]_vars

-----------------------------------------------------------------------------
(* Vocabulary of the properties *)

Devices == DOMAIN trace

Last(seq) == seq[Len(seq)]

Range(seq) == { seq[j] : j \in 1..Len(seq) }

IsPrefix(a, b) == Len(a) <= Len(b) /\ SubSeq(b, 1, Len(a)) = a

\* the calls of process_target and, inside create_backup and check_ntp, their
\* remote calls, in program order
PipelineOrder ==
    <<"connect", "get_path", "enable", "sh_run", "write", "cdp", "version",
      "timezone", "ping", "ntp_server", "sleep", "ntp_asso", "disconnect">>

RunOver == mainPc \in {"done", "crashed"}

\* process_target has been called for device k and has returned or raised
PipelineEnded(k) == k < n \/ (k = n /\ pc \in {"idle", "raised"})

\* the pipeline of device k raised in step s
FailedIn(k, s) == pc = "raised" /\ n = k /\ Last(trace[k]) = s

OpenSessions == { k \in Devices : connection[k] = "open" }

\* report lines whose version facts are empty and whose CDP and NTP facts
\* are empty or at their fallback value
UnknownLines ==
    { ResultLine(<<"", "", "", "">>, c, t) :
        c \in {"", "CDP is OFF, 0 peers"}, t \in {"", "Not Sync"} }

HasResult(k) == \E j \in 1..Len(result) : origin[j] = device_list[k].ip

-----------------------------------------------------------------------------
(* Properties *)

\* C1: when a run is over, there are as many Results as Device Records,
\* whichever devices failed to connect or failed in a later step.
C1_OneResultPerRecord ==
    (RunOver /\ Len(device_list) > 0) => Len(result) = Len(device_list)

\* C2: when the connection to exactly one device failed, every other device's
\* pipeline has run all its steps up to the disconnect and has a Result.
C2_OtherPipelinesUnaffected ==
    (RunOver /\ Cardinality({ k \in Devices : FailedIn(k, "connect") }) = 1)
        => \A k \in Devices :
              ~FailedIn(k, "connect") => (trace[k] = PipelineOrder /\ HasResult(k))

\* C3: a failure of connect or of the privilege escalation ends the pipeline
\* with a Result of unknown facts; no later step is run for the device.
C3_ConnectFailureGivesUnknownResult ==
    \A k \in Devices :
        (FailedIn(k, "connect") \/ FailedIn(k, "enable"))
            => \E j \in 1..Len(result) :
                  origin[j] = device_list[k].ip /\ result[j] \in UnknownLines

\* C4: a failure of the running-config command or of the file write does not
\* end the pipeline: it goes on to the CDP step.
C4_BackupFailureDoesNotStop ==
    \A k \in Devices : ~(FailedIn(k, "sh_run") \/ FailedIn(k, "write"))

\* C5: when a pipeline has ended, the session it opened is closed, by one
\* disconnect.
C5_SessionClosedWhenPipelineEnds ==
    \A k \in Devices :
        PipelineEnded(k)
            => /\ connection[k] # "open"
               /\ connection[k] = "closed"
                    => Cardinality({ j \in 1..Len(trace[k]) : trace[k][j] = "disconnect" }) = 1

\* C6: every call of the pipeline ends by returning one Result: none raises,
\* and the results collected are as many as the calls that have ended.
C6_PipelineReturnsOneResult ==
    /\ pc # "raised"
    /\ mainPc \in {"loop", "done"} => Len(result) = n

\* C7: the i-th Result comes from the i-th Device Record, and the report
\* printed is the results in that order.
C7_ResultsInInputOrder ==
    /\ Len(origin) = Len(result)
    /\ \A j \in 1..Len(result) : origin[j] = device_list[j].ip
    /\ printed = IF mainPc = "done" THEN result ELSE << >>

C7_Witness ==
    /\ mainPc = "done"
    /\ Len(printed) = 2
    /\ origin = <<IpOf(1), IpOf(2)>>

\* C8: the steps a pipeline has started are, in order, an initial part of
\* connect, backup (path, enable, sh run, write), CDP, version, timezone,
\* ping, NTP configuration push, settle wait, NTP association query,
\* disconnect.
C8_StepsInPipelineOrder ==
    \A k \in Devices :
        IsPrefix(trace[k], PipelineOrder)

C8_Witness ==
    \E k \in Devices : trace[k] = PipelineOrder /\ pc = "return"

\* the loop of main calls process_target for one device at a time
ConcurrencyBound == 1

C10_CdpSummary ==
    pc = "version" =>
        /\ IsList(output)
              => cdp_result = "CDP is ON, " \o ToString(Len(output.records)) \o " peers"
        /\ (IsList(output) /\ Len(output.records) = 0) => cdp_result = "CDP is ON, 0 peers"
        /\ cdp_result = "CDP is OFF, 0 peers" <=> ~IsList(output)

C10_Witness ==
    /\ pc = "version"
    /\ output = Structured(<< >>)
    /\ cdp_result = "CDP is ON, 0 peers"

\* the spellings of the token in any letter case
NpeSpellings == {"npe", "npE", "nPe", "nPE", "Npe", "NpE", "NPe", "NPE"}

HasNpeToken(img) ==
    \E i \in 1..(Len(img) - 2) : SubSeq(img, i, i + 2) \in NpeSpellings

\* check_version has returned from a list holding a record
VersionFromRecord == pc = "timezone" /\ IsList(output) /\ Len(output.records) > 0

C12_UnparsedVersionGivesEmptyFields ==
    /\ (pc = "timezone" /\ ~IsList(output)) => ver_result = <<"", "", "", "">>
    /\ \A k \in Devices : ~(FailedIn(k, "version") /\ exc = "AttributeError")

HasSyncMarker(o) ==
    \E i \in 1..Len(o) :
        /\ i + 1 + Len(NTP_SERVER) <= Len(o)
        /\ SubSeq(o, i, i + 1) = "*~"
        /\ SubSeq(o, i + 2, i + 1 + Len(NTP_SERVER)) = NTP_SERVER

\* C13: the NTP check gives "Clock in Sync" exactly when the association
\* output holds "*~" immediately followed by the NTP server address, and
\* "Not Sync" otherwise, also when the address is there without the marker.
C13_NtpSyncMarker ==
    pc = "disconnect" =>
        ntp_result = IF HasSyncMarker(output) THEN "Clock in Sync" ELSE "Not Sync"

C13_Witness ==
    /\ pc = "disconnect"
    /\ output = " ~10.10.0.1 .INIT."
    /\ ntp_result = "Not Sync"

\* C14: a device whose backup failed (the running-config command or the file
\* write) has a Result, in which the failed backup shows.
C14_FailedBackupShowsInResult ==
    \A k \in Devices :
        (FailedIn(k, "sh_run") \/ FailedIn(k, "write")) => HasResult(k)

\* C15: a command failure in the CDP step or in the version step is caught
\* there, and the pipeline goes on with the next step.
C15_InspectFailureIsCaught ==
    \A k \in Devices : ~(FailedIn(k, "cdp") \/ FailedIn(k, "version"))

\* C16: a failure of the timezone configuration push does not end the
\* pipeline: the NTP steps and the disconnect still run.
C16_TimezoneFailureDoesNotStop ==
    \A k \in Devices : FailedIn(k, "timezone") => "disconnect" \in Range(trace[k])

HasFiveDots(o) == \E i \in 1..(Len(o) - 4) : SubSeq(o, i, i + 4) = "....."

CountOf(c, line) == Cardinality({ i \in 1..Len(line) : SubSeq(line, i, i) = c })

\* C17: ping_ntp reports unreachable exactly when the ping output holds
\* ".....", reachable otherwise; whatever it reports, the next step is the
\* NTP configuration push, and every report line collected (looked at
\* between two pipelines) has the six fields of the version, CDP and NTP
\* facts and none for the ping.
C17_PingOutcomeNotUsed ==
    /\ pc = "ntp_server" => (ping_ret = "False" <=> HasFiveDots(output))
    /\ pc = "ntp_server" => ping_ret \in {"True", "False"}
    /\ \A k \in Devices :
          (trace[k] # << >> /\ Last(trace[k]) = "ping" /\ ~FailedIn(k, "ping"))
              => pc = "ntp_server"
    /\ pc = "idle" => \A j \in 1..Len(result) :
          /\ CountOf("|", result[j]) = 5
          /\ \E t \in {"Clock in Sync", "Not Sync"} :
                /\ Len(result[j]) >= Len(t)
                /\ SubSeq(result[j], Len(result[j]) - Len(t) + 1, Len(result[j])) = t

\* an unreachable NTP server, and the pipeline at the NTP configuration push
C17_Witness ==
    /\ pc = "ntp_server"
    /\ output = "....."
    /\ ping_ret = "False"

\* {root}/H/H-T.txt for the hostname H of device k and the timestamp of the run
PathOf(k) ==
    "backups/" \o inventory[k].hostname \o "/" \o inventory[k].hostname
        \o "-" \o timestamp \o ".txt"

WriteAttempted(k) == "write" \in Range(trace[k])

WriteDone(k) == WriteAttempted(k) /\ ~FailedIn(k, "write")

\* C18: every pipeline uses the one timestamp T of the run; the backup of a
\* device with hostname H is the file {root}/H/H-T.txt and no other file is
\* written; of two devices with the same H, the later one's configuration
\* is what the file holds.
C18_BackupPath ==
    /\ mainPc # "timestamp" => timestamp \in Timestamps
    /\ n > 0 => backup_file_path \in {"", PathOf(n)}
    /\ DOMAIN files \subseteq { PathOf(k) : k \in { j \in Devices : WriteAttempted(j) } }
    /\ \A k \in Devices :
          WriteDone(k) =>
              /\ PathOf(k) \in DOMAIN files
              /\ BackupDir(inventory[k].hostname) \in dirs
              /\ { j \in Devices : j > k /\ WriteAttempted(j) /\ PathOf(j) = PathOf(k) } = {}
                    => files[PathOf(k)] = RunningConfig(inventory[k].ip)

\* two devices of the same hostname, both backed up: one file, the second's
C18_Witness ==
    /\ n = 2
    /\ WriteDone(1) /\ WriteDone(2)
    /\ inventory[1].hostname = inventory[2].hostname
    /\ Cardinality(DOMAIN files) = 1
    /\ files[PathOf(2)] = RunningConfig(IpOf(2))

CommandSteps == {"sh_run", "cdp", "version", "timezone", "ping", "ntp_server", "ntp_asso"}

\* C19: a show, ping or configuration command is sent only on a session that
\* is connected and in enable mode, the enable having come before it.
C19_EnableBeforeCommands ==
    \A k \in Devices :
        LET t == trace[k]
            commands == { j \in 1..Len(t) : t[j] \in CommandSteps }
        IN  commands # {} =>
                /\ enabled[k]
                /\ connection[k] # "none"
                /\ \E c, e \in 1..Len(t) :
                      /\ t[c] = "connect" /\ t[e] = "enable" /\ c < e
                      /\ \A j \in commands : e < j

C19_Witness ==
    /\ n = 1
    /\ pc = "write"
    /\ enabled[1]
    /\ trace[1] = <<"connect", "get_path", "enable", "sh_run">>

\* C20: report lines are printed only when the pipeline of every device has
\* returned, all of them at once; a run that a raise ended has printed none.
C20_NoPartialReport ==
    /\ printed # << >> =>
          /\ mainPc = "done"
          /\ Len(printed) = Len(device_list)
          /\ \A k \in Devices : "disconnect" \in Range(trace[k])
    /\ mainPc = "crashed" => printed = << >>

\* the first device has its line, the second one raised: nothing is printed
C20_Witness ==
    /\ mainPc = "crashed"
    /\ n = 2
    /\ Len(result) = 1
    /\ printed = << >>

====
